---- MODULE Spec2Model ----
(***************************************************************************)
(* Model of Source/Scene/Polygon.js: the Polygon primitive.                *)
(*                                                                         *)
(*  - configureFromPolygonHierarchy flattens a nested hierarchy of outer   *)
(*    rings and holes into a list of hole-free loops (FIFO work queue);    *)
(*  - update decides, each frame, whether the Primitive it owns is reused  *)
(*    or destroyed and rebuilt, from _createPrimitive and the shadow       *)
(*    copies _ellipsoid, _granularity, _height, _textureRotationAngle.     *)
(*                                                                         *)
(* Spec        the object under any interleaving of field writes, setters, *)
(*             update, getPositions and destroy (each call is atomic: the  *)
(*             code is single-threaded and synchronous).                   *)
(* SpecFlatten one call of configureFromPolygonHierarchy on a freshly      *)
(*             constructed polygon, one loop iteration per step.           *)
(***************************************************************************)
EXTENDS Integers, Sequences, FiniteSets

VARIABLES
    ellipsoid, _ellipsoid,                    \* lines 60-61
    granularity, _granularity,                \* lines 66-67
    height, _height,                          \* lines 72-73
    textureRotationAngle, _textureRotationAngle, \* lines 78-79
    show,                                     \* line 86
    material,                                 \* line 109
    _positions,                               \* line 111
    _polygonHierarchy,                        \* line 112
    _createPrimitive,                         \* line 113
    _primitive,                               \* line 115
    destroyed,      \* set by destroyObject(this), line 357
    thrown,         \* message of the DeveloperError the last call threw, or NoError
    log,            \* calls the last call made on the Primitive it owns, in order
    leaked,         \* Primitives dropped by the polygon without destroy()
    quiet,          \* a visible update returned normally and no setter call or
                    \* write to ellipsoid/granularity/height/textureRotationAngle
                    \* happened since
    lastSet,        \* the last setter that returned normally, with its argument
    hierarchy, queue, polygons, pc,  \* configureFromPolygonHierarchy in progress
    dequeued        \* the nodes queue.dequeue() has returned in that call

vars == <<ellipsoid, _ellipsoid, granularity, _granularity, height, _height,
          textureRotationAngle, _textureRotationAngle, show, material,
          _positions, _polygonHierarchy, _createPrimitive, _primitive,
          destroyed, thrown, log, leaked, quiet, lastSet,
          hierarchy, queue, polygons, pc, dequeued>>

config == <<ellipsoid, granularity, height, textureRotationAngle, show, material>>
shadow == <<_ellipsoid, _granularity, _height, _textureRotationAngle>>
stored == <<_positions, _polygonHierarchy, _createPrimitive>>
flattening == <<hierarchy, queue, polygons, pc, dequeued>>

(***************************************************************************)
(* Values.                                                                 *)
(***************************************************************************)

\* JavaScript's undefined, for fields holding a number or an object identity.
Undefined == -1000

\* typeof value !== 'undefined'
defined(value) == value # Undefined

\* An array-valued field: undefined, or an array.
UndefinedArray == [defined |-> FALSE, value |-> <<>>]
Array(a) == [defined |-> TRUE, value |-> a]

\* Bounds of the model.
NumRings == 2      \* distinct rings of 3 or more points offered to the setters
MaxNodes == 4      \* nodes of a hierarchy offered to SpecFlatten

RECURSIVE Points(_, _)
\* The n points base + 1 .. base + n; points are positive integers.
Points(n, base) ==
    IF n = 0 THEN << >> ELSE Append(Points(n - 1, base), base + n)
\* Ring k has k + 2 points, its own.
Ring(k) == Points(k + 2, 10 * k)
ValidRings == {Ring(k) : k \in 1..NumRings}
\* Arrays with fewer than three points, the empty array included.
ShortRings == {<< >>, <<1>>, <<1, 2>>}
\* The rings of the hierarchies offered to SpecFlatten.
Rings == ValidRings \cup {<<1, 2>>}

Ellipsoids == {1, 2}             \* object identities; 1 is Ellipsoid.WGS84
Materials == {1, 2}              \* object identities; 1 is the default material
Granularities == {-1, 0, 1}      \* radians; the default is 1 (degree)
Heights == {0, 1}
Angles == {Undefined, 1}

NoError == "none"
AtLeastThree == "At least three positions are required."
EllipsoidMsg == "this.ellipsoid must be defined."
MaterialMsg == "this.material must be defined."
GranularityMsg ==
    "this.granularity and scene2D/scene3D overrides must be greater than zero."
DestroyedMsg == "This object was destroyed, i.e., destroy() was called."

\* The error kinds of the specification, as sets of DeveloperError messages.
ConfigurationError == {AtLeastThree}
InvariantViolation == {EllipsoidMsg, MaterialMsg, GranularityMsg}
UseAfterDestroy == {DestroyedMsg}

(***************************************************************************)
(* Hierarchies: a node is [positions, holes]; holes is a sequence of nodes *)
(* (an absent holes property is the empty sequence: line 218 treats both   *)
(* as zero children).                                                      *)
(***************************************************************************)

Node(positions, holes) == [positions |-> positions, holes |-> holes]
Leaf(positions) == Node(positions, << >>)

RECURSIVE TreesOfSize(_), ForestsOfSize(_)
\* All hierarchies with exactly n nodes, rings drawn from Rings.
TreesOfSize(n) ==
    IF n < 1 THEN {}
    ELSE {Node(r, hs) : r \in Rings, hs \in ForestsOfSize(n - 1)}
\* All sequences of hierarchies with n nodes in total.
ForestsOfSize(n) ==
    IF n = 0 THEN {<< >>}
    ELSE UNION {{<<t>> \o f : t \in TreesOfSize(k), f \in ForestsOfSize(n - k)} :
                k \in 1..n}

Hierarchies == UNION {TreesOfSize(n) : n \in 1..MaxNodes}

\* The hierarchies offered to the setter under Spec.
R1 == Ring(1)
R2 == Ring(NumRings)
HierarchyInputs ==
    { Leaf(R1),                                        \* a simple polygon
      Node(R1, <<Node(R2, <<Leaf(R1)>>)>>),            \* a hole with an island
      Node(R1, <<Node(R2, <<Leaf(<<1, 2>>)>>)>>) }     \* ... a short island

RECURSIVE Splice(_)
Splice(holes) ==
    IF holes = << >> THEN << >>
    ELSE <<0>> \o Head(holes) \o Splice(Tail(holes))

\* PolygonPipeline.eliminateHoles(outerRing, holes): one loop for the outer
\* ring and its holes.  The loop is the outer ring followed by each hole in
\* order, each behind a bridge mark 0: the arguments can be read back from it.
eliminateHoles(outerRing, holes) == outerRing \o Splice(holes)

RECURSIVE Grandchildren(_)
\* Lines 225-237, the enqueue part: the holes of each hole, in order.
Grandchildren(holes) ==
    IF holes = << >> THEN << >>
    ELSE Head(holes).holes \o Grandchildren(Tail(holes))

RECURSIVE HolePositions(_)
\* Lines 225-228, the holes array: the positions of each hole, unchecked.
HolePositions(holes) ==
    IF holes = << >> THEN << >>
    ELSE <<Head(holes).positions>> \o HolePositions(Tail(holes))

\* Iterate, but reading the head of the queue without removing it.
IteratePeeks(q, p) ==
    LET outerNode == Head(q)
        outerRing == outerNode.positions
        numChildren == Len(outerNode.holes)
    IN  IF Len(outerRing) < 3
        THEN [thrown |-> AtLeastThree, queue |-> q, polygons |-> p]
        ELSE IF numChildren = 0
        THEN [thrown |-> NoError, queue |-> q,
              polygons |-> Append(p, outerNode.positions)]
        ELSE [thrown |-> NoError,
              queue |-> q \o Grandchildren(outerNode.holes),
              polygons |-> Append(p, eliminateHoles(outerRing,
                                        HolePositions(outerNode.holes)))]

\* Iterate, but with the holes themselves put on the queue, not the nodes
\* nested in them.
IterateEnqueuesHoles(q, p) ==
    LET outerNode == Head(q)
        outerRing == outerNode.positions
        numChildren == Len(outerNode.holes)
    IN  IF Len(outerRing) < 3
        THEN [thrown |-> AtLeastThree, queue |-> Tail(q), polygons |-> p]
        ELSE IF numChildren = 0
        THEN [thrown |-> NoError, queue |-> Tail(q),
              polygons |-> Append(p, outerNode.positions)]
        ELSE [thrown |-> NoError,
              queue |-> Tail(q) \o outerNode.holes,
              polygons |-> Append(p, eliminateHoles(outerRing,
                                        HolePositions(outerNode.holes)))]

\* Lines 211-240: one iteration of the while loop on work queue q and output p.
Iterate(q, p) ==
    LET outerNode == Head(q)
        outerRing == outerNode.positions
        numChildren == Len(outerNode.holes)
    IN  IF Len(outerRing) < 3
        THEN [thrown |-> AtLeastThree, queue |-> Tail(q), polygons |-> p]
        ELSE IF numChildren = 0
        THEN [thrown |-> NoError, queue |-> Tail(q),
              polygons |-> Append(p, outerNode.positions)]
        ELSE [thrown |-> NoError,
              queue |-> Tail(q) \o Grandchildren(outerNode.holes),
              polygons |-> Append(p, eliminateHoles(outerRing,
                                        HolePositions(outerNode.holes)))]

RECURSIVE Loop(_, _)
\* Lines 210-241: the while loop, to its end or to the throw.
Loop(q, p) ==
    IF Len(q) = 0 THEN [thrown |-> NoError, queue |-> q, polygons |-> p]
    ELSE LET it == Iterate(q, p)
         IN  IF it.thrown # NoError THEN it ELSE Loop(it.queue, it.polygons)

\* Lines 206-241: the local result of configureFromPolygonHierarchy(h).
Flatten(h) == Loop(<<h>>, << >>)

(***************************************************************************)
(* The Primitive the polygon owns, and the calls made on it.               *)
(***************************************************************************)

NoPrimitive ==
    [defined |-> FALSE, positions |-> UndefinedArray,
     polygonHierarchy |-> UndefinedArray, height |-> Undefined,
     stRotation |-> Undefined, ellipsoid |-> Undefined,
     granularity |-> Undefined, aboveGround |-> FALSE]

\* Lines 295-313: new Primitive over new PolygonGeometry of the current fields.
NewPrimitive ==
    [defined |-> TRUE, positions |-> _positions,
     polygonHierarchy |-> _polygonHierarchy, height |-> height,
     stRotation |-> textureRotationAngle, ellipsoid |-> ellipsoid,
     granularity |-> granularity, aboveGround |-> (height > 0)]

Call(name, arg) == [call |-> name, arg |-> arg]
DestroyCall == Call("destroy", Undefined)                  \* primitive.destroy()
NewCall == Call("new", Undefined)                          \* new Primitive(...)
MaterialCall(m) == Call("appearance.material", m)          \* line 316
UpdateCall == Call("update", Undefined)                    \* line 317

\* How many of the calls l are calls of name.
CountIn(l, name) == Cardinality({i \in 1..Len(l) : l[i].call = name})

(***************************************************************************)
(* Construction, lines 54-116.                                             *)
(***************************************************************************)

Idle ==
    /\ hierarchy = Leaf(<< >>)
    /\ queue = << >>
    /\ polygons = << >>
    /\ pc = "idle"
    /\ dequeued = << >>

Constructed ==
    /\ ellipsoid \in Ellipsoids
    /\ _ellipsoid = Undefined
    /\ granularity \in Granularities
    /\ _granularity = Undefined
    /\ height \in Heights
    /\ _height = Undefined
    /\ textureRotationAngle \in Angles
    /\ _textureRotationAngle = Undefined
    /\ show \in BOOLEAN
    /\ material \in Materials
    /\ _positions \in {UndefinedArray, Array(R1)}
    /\ _polygonHierarchy \in {UndefinedArray, Array(<<R1>>)}
    /\ _createPrimitive = FALSE
    /\ _primitive = NoPrimitive
    /\ destroyed = FALSE
    /\ thrown = NoError
    /\ log = << >>
    /\ leaked = FALSE
    /\ quiet = FALSE
    /\ lastSet = [call |-> "none", positions |-> UndefinedArray]

Init == Constructed /\ Idle

(***************************************************************************)
(* Writes to the public fields, between calls.                             *)
(***************************************************************************)

Between ==
    /\ pc = "idle"
    /\ ~destroyed
    /\ thrown' = NoError
    /\ log' = << >>
    /\ UNCHANGED <<shadow, stored, _primitive, destroyed, leaked, lastSet,
                   flattening>>

WriteEllipsoid ==
    /\ Between
    /\ \E v \in (Ellipsoids \cup {Undefined}) \ {ellipsoid} : ellipsoid' = v
    /\ quiet' = FALSE
    /\ UNCHANGED <<granularity, height, textureRotationAngle, show, material>>

WriteGranularity ==
    /\ Between
    /\ \E v \in Granularities \ {granularity} : granularity' = v
    /\ quiet' = FALSE
    /\ UNCHANGED <<ellipsoid, height, textureRotationAngle, show, material>>

WriteHeight ==
    /\ Between
    /\ \E v \in Heights \ {height} : height' = v
    /\ quiet' = FALSE
    /\ UNCHANGED <<ellipsoid, granularity, textureRotationAngle, show, material>>

WriteTextureRotationAngle ==
    /\ Between
    /\ \E v \in Angles \ {textureRotationAngle} : textureRotationAngle' = v
    /\ quiet' = FALSE
    /\ UNCHANGED <<ellipsoid, granularity, height, show, material>>

WriteShow ==
    /\ Between
    /\ show' = ~show
    /\ UNCHANGED <<ellipsoid, granularity, height, textureRotationAngle,
                   material, quiet>>

WriteMaterial ==
    /\ Between
    /\ \E v \in (Materials \cup {Undefined}) \ {material} : material' = v
    /\ UNCHANGED <<ellipsoid, granularity, height, textureRotationAngle,
                   show, quiet>>

(***************************************************************************)
(* The methods.  Each computes its outcome as a record of the fields it    *)
(* may assign, and the action stores the record.                           *)
(***************************************************************************)

\* destroyObject(this) replaces every method but isDestroyed by one that
\* throws: a call on a destroyed polygon throws and touches nothing.
ThrowsDestroyed ==
    /\ destroyed
    /\ thrown' = DestroyedMsg
    /\ log' = << >>
    /\ UNCHANGED <<config, shadow, stored, _primitive, destroyed, leaked,
                   quiet, lastSet, flattening>>

\* Lines 332-334, and destroyObject's replacement of it.
isDestroyed == IF destroyed THEN TRUE ELSE FALSE

\* The arguments offered to setPositions.
PositionInputs ==
    {UndefinedArray} \cup {Array(r) : r \in ValidRings \cup ShortRings}

\* setPositions, but keeping a list already stored.
setPositionsKeepsFirst(positions) ==
    IF positions.defined /\ Len(positions.value) < 3
    THEN [thrown |-> AtLeastThree, _positions |-> _positions,
          _polygonHierarchy |-> _polygonHierarchy,
          _createPrimitive |-> _createPrimitive]
    ELSE [thrown |-> NoError,
          _positions |-> IF _positions.defined THEN _positions ELSE positions,
          _polygonHierarchy |-> UndefinedArray,
          _createPrimitive |-> TRUE]

\* setPositions, but asking for a rebuild only when the list differs from
\* the one stored.
setPositionsIfChanged(positions) ==
    IF positions.defined /\ Len(positions.value) < 3
    THEN [thrown |-> AtLeastThree, _positions |-> _positions,
          _polygonHierarchy |-> _polygonHierarchy,
          _createPrimitive |-> _createPrimitive]
    ELSE [thrown |-> NoError, _positions |-> positions,
          _polygonHierarchy |-> UndefinedArray,
          _createPrimitive |-> (_createPrimitive \/ positions # _positions)]

\* setPositions, but taking an empty array, like undefined, as no positions.
setPositionsAcceptsEmpty(positions) ==
    IF positions.defined /\ Len(positions.value) > 0
                         /\ Len(positions.value) < 3
    THEN [thrown |-> AtLeastThree, _positions |-> _positions,
          _polygonHierarchy |-> _polygonHierarchy,
          _createPrimitive |-> _createPrimitive]
    ELSE [thrown |-> NoError, _positions |-> positions,
          _polygonHierarchy |-> UndefinedArray,
          _createPrimitive |-> TRUE]

\* Lines 150-158.
setPositionsResult(positions) ==
    IF positions.defined /\ Len(positions.value) < 3
    THEN [thrown |-> AtLeastThree, _positions |-> _positions,
          _polygonHierarchy |-> _polygonHierarchy,
          _createPrimitive |-> _createPrimitive]
    ELSE [thrown |-> NoError, _positions |-> positions,
          _polygonHierarchy |-> UndefinedArray,
          _createPrimitive |-> TRUE]

\* Lines 243-245.
Store(p) ==
    [thrown |-> NoError, _positions |-> UndefinedArray,
     _polygonHierarchy |-> Array(p), _createPrimitive |-> TRUE]

\* configureFromPolygonHierarchy, but with line 243 moved before the loop.
configureClearsFirst(h) ==
    LET f == Flatten(h)
    IN  IF f.thrown # NoError
        THEN [thrown |-> f.thrown, _positions |-> UndefinedArray,
              _polygonHierarchy |-> _polygonHierarchy,
              _createPrimitive |-> _createPrimitive]
        ELSE Store(f.polygons)

\* Lines 204-246.
configureFromPolygonHierarchyResult(h) ==
    LET f == Flatten(h)
    IN  IF f.thrown # NoError
        THEN [thrown |-> f.thrown, _positions |-> _positions,
              _polygonHierarchy |-> _polygonHierarchy,
              _createPrimitive |-> _createPrimitive]
        ELSE Store(f.polygons)

\* A setter's outcome r stored; the caller made no call on the Primitive.
SetterStores(r) ==
    /\ thrown' = r.thrown
    /\ _positions' = r._positions
    /\ _polygonHierarchy' = r._polygonHierarchy
    /\ _createPrimitive' = r._createPrimitive
    /\ log' = << >>
    /\ quiet' = FALSE
    /\ UNCHANGED <<config, shadow, _primitive, destroyed, leaked, flattening>>

setPositions ==
    /\ pc = "idle"
    /\ \/ ThrowsDestroyed
       \/ /\ ~destroyed
          /\ \E positions \in PositionInputs :
                LET r == setPositionsResult(positions)
                IN  /\ SetterStores(r)
                    /\ lastSet' = IF r.thrown = NoError
                                  THEN [call |-> "setPositions",
                                        positions |-> positions]
                                  ELSE lastSet

configureFromPolygonHierarchy ==
    /\ pc = "idle"
    /\ \/ ThrowsDestroyed
       \/ /\ ~destroyed
          /\ \E h \in HierarchyInputs :
                LET r == configureFromPolygonHierarchyResult(h)
                IN  /\ SetterStores(r)
                    /\ lastSet' = IF r.thrown = NoError
                                  THEN [call |-> "configureFromPolygonHierarchy",
                                        positions |-> UndefinedArray]
                                  ELSE lastSet

\* Lines 127-129.
getPositions ==
    /\ pc = "idle"
    /\ \/ ThrowsDestroyed
       \/ /\ ~destroyed
          /\ thrown' = NoError
          /\ log' = << >>
          /\ UNCHANGED <<config, shadow, stored, _primitive, destroyed, leaked,
                         quiet, lastSet, flattening>>

\* DestroyPrimitive, but letting go of the Primitive without destroying it.
DestroyPrimitiveSkipped ==
    [_primitive |-> _primitive, log |-> << >>]

\* Lines 289 and 356: this._primitive = this._primitive && this._primitive.destroy()
DestroyPrimitive ==
    [_primitive |-> NoPrimitive,
     log |-> IF _primitive.defined THEN <<DestroyCall>> ELSE << >>]

\* Lines 256-266: the message of the error thrown, if any.
Validation ==
    IF ~defined(ellipsoid) THEN EllipsoidMsg
    ELSE IF ~defined(material) THEN MaterialMsg
    ELSE IF granularity < 0 THEN GranularityMsg
    ELSE NoError

\* The radii of ellipsoid e: the model's ellipsoids are distinct objects of
\* equal radii.
EllipsoidRadii(e) == IF defined(e) THEN 1 ELSE Undefined

\* Dirty, but comparing the ellipsoids of line 278 by their radii.
DirtyByValue ==
    \/ _createPrimitive
    \/ EllipsoidRadii(_ellipsoid) # EllipsoidRadii(ellipsoid)
    \/ _granularity # granularity
    \/ _height # height
    \/ _textureRotationAngle # textureRotationAngle

\* Dirty, but without the _createPrimitive of line 277.
DirtyIgnoresFlag ==
    \/ _ellipsoid # ellipsoid
    \/ _granularity # granularity
    \/ _height # height
    \/ _textureRotationAngle # textureRotationAngle

\* Dirty, but without the comparison of line 281.
DirtyIgnoresAngle ==
    \/ _createPrimitive
    \/ _ellipsoid # ellipsoid
    \/ _granularity # granularity
    \/ _height # height

\* Lines 277-281.
Dirty ==
    \/ _createPrimitive
    \/ _ellipsoid # ellipsoid
    \/ _granularity # granularity
    \/ _height # height
    \/ _textureRotationAngle # textureRotationAngle

\* update leaves every field as it is, having thrown msg or returned by `how`.
Untouched(msg, how) ==
    [thrown |-> msg, how |-> how, log |-> << >>,
     _createPrimitive |-> _createPrimitive, _ellipsoid |-> _ellipsoid,
     _granularity |-> _granularity, _height |-> _height,
     _textureRotationAngle |-> _textureRotationAngle,
     _primitive |-> _primitive, leaked |-> leaked]

\* Rebuild, but without the return of lines 291-293.
RebuildBuildsAlways ==
    LET old == DestroyPrimitive
    IN  [thrown |-> NoError, how |-> "drawn",
         log |-> old.log \o <<NewCall>>,
         _createPrimitive |-> FALSE, _ellipsoid |-> ellipsoid,
         _granularity |-> granularity, _height |-> height,
         _textureRotationAngle |-> textureRotationAngle,
         _primitive |-> NewPrimitive,
         leaked |-> leaked \/ old._primitive.defined]

\* Rebuild, but without line 283: _createPrimitive stays set.
RebuildKeepsFlag ==
    LET old == DestroyPrimitive
        nothing == ~_positions.defined /\ ~_polygonHierarchy.defined
    IN  [thrown |-> NoError,
         how |-> IF nothing THEN "cleared" ELSE "drawn",
         log |-> IF nothing THEN old.log ELSE old.log \o <<NewCall>>,
         _createPrimitive |-> _createPrimitive, _ellipsoid |-> ellipsoid,
         _granularity |-> granularity, _height |-> height,
         _textureRotationAngle |-> textureRotationAngle,
         _primitive |-> IF nothing THEN old._primitive ELSE NewPrimitive,
         leaked |-> leaked \/ (~nothing /\ old._primitive.defined)]

\* Lines 283-313: the body of the if, to the return of line 292 or to its end.
Rebuild ==
    LET old == DestroyPrimitive
        nothing == ~_positions.defined /\ ~_polygonHierarchy.defined
    IN  [thrown |-> NoError,
         how |-> IF nothing THEN "cleared" ELSE "drawn",
         log |-> IF nothing THEN old.log ELSE old.log \o <<NewCall>>,
         _createPrimitive |-> FALSE, _ellipsoid |-> ellipsoid,
         _granularity |-> granularity, _height |-> height,
         _textureRotationAngle |-> textureRotationAngle,
         _primitive |-> IF nothing THEN old._primitive ELSE NewPrimitive,
         leaked |-> leaked \/ (~nothing /\ old._primitive.defined)]

\* Lines 316-317 after r: the material is assigned, then the Primitive updated.
Draw(r) ==
    IF r.how # "drawn" THEN r
    ELSE [r EXCEPT !.log = @ \o <<MaterialCall(material), UpdateCall>>]

\* update, but with the show test of lines 268-270 before the validation.
updateChecksShowFirst ==
    IF ~show THEN Untouched(NoError, "hidden")
    ELSE IF Validation # NoError THEN Untouched(Validation, "thrown")
    ELSE IF ~_createPrimitive /\ ~_primitive.defined
    THEN Untouched(NoError, "nothing")
    ELSE IF Dirty THEN Draw(Rebuild)
    ELSE Draw(Untouched(NoError, "drawn"))

\* update, but without the show test of lines 268-270.
updateIgnoresShow ==
    IF Validation # NoError THEN Untouched(Validation, "thrown")
    ELSE IF ~_createPrimitive /\ ~_primitive.defined
    THEN Untouched(NoError, "nothing")
    ELSE IF Dirty THEN Draw(Rebuild)
    ELSE Draw(Untouched(NoError, "drawn"))

\* Lines 255-318.
updateResult ==
    IF Validation # NoError THEN Untouched(Validation, "thrown")
    ELSE IF ~show THEN Untouched(NoError, "hidden")
    ELSE IF ~_createPrimitive /\ ~_primitive.defined
    THEN Untouched(NoError, "nothing")
    ELSE IF Dirty THEN Draw(Rebuild)
    ELSE Draw(Untouched(NoError, "drawn"))

update ==
    /\ pc = "idle"
    /\ \/ ThrowsDestroyed
       \/ /\ ~destroyed
          /\ LET r == updateResult
             IN  /\ thrown' = r.thrown
                 /\ log' = r.log
                 /\ _createPrimitive' = r._createPrimitive
                 /\ _ellipsoid' = r._ellipsoid
                 /\ _granularity' = r._granularity
                 /\ _height' = r._height
                 /\ _textureRotationAngle' = r._textureRotationAngle
                 /\ _primitive' = r._primitive
                 /\ leaked' = r.leaked
                 /\ quiet' = IF r.how \in {"nothing", "cleared", "drawn"}
                             THEN TRUE ELSE quiet
          /\ UNCHANGED <<config, _positions, _polygonHierarchy, destroyed,
                         lastSet, flattening>>

\* destroy, but dropping the Primitive without destroying it.
destroySkipsPrimitive ==
    [_primitive |-> NoPrimitive, log |-> << >>,
     leaked |-> leaked \/ _primitive.defined, destroyed |-> TRUE]

\* Lines 355-358: the Primitive is destroyed, then destroyObject(this).
destroyResult ==
    LET old == DestroyPrimitive
    IN  [_primitive |-> old._primitive, log |-> old.log,
         leaked |-> leaked \/ old._primitive.defined, destroyed |-> TRUE]

destroy ==
    /\ pc = "idle"
    /\ \/ ThrowsDestroyed
       \/ /\ ~destroyed
          /\ LET r == destroyResult
             IN  /\ _primitive' = r._primitive
                 /\ log' = r.log
                 /\ leaked' = r.leaked
                 /\ destroyed' = r.destroyed
          /\ thrown' = NoError
          /\ UNCHANGED <<config, shadow, stored, quiet, lastSet, flattening>>

Next ==
    \/ WriteEllipsoid
    \/ WriteGranularity
    \/ WriteHeight
    \/ WriteTextureRotationAngle
    \/ WriteShow
    \/ WriteMaterial
    \/ setPositions
    \/ configureFromPolygonHierarchy
    \/ getPositions
    \/ update
    \/ destroy

Spec == Init /\ [][Next]_vars

(***************************************************************************)
(* One call of configureFromPolygonHierarchy, an iteration per step.       *)
(***************************************************************************)

InitFlatten ==
    /\ Constructed
    /\ ellipsoid = 1
    /\ granularity = 1
    /\ height = 0
    /\ textureRotationAngle = Undefined
    /\ show
    /\ material = 1
    /\ _polygonHierarchy = UndefinedArray
    /\ hierarchy \in Hierarchies
    /\ queue = <<hierarchy>>        \* lines 206-208
    /\ polygons = << >>
    /\ pc = "loop"
    /\ dequeued = << >>

\* Lines 210-241: one iteration; a throw ends the call.
FlattenIterate ==
    /\ pc = "loop"
    /\ Len(queue) # 0
    /\ LET it == Iterate(queue, polygons)
       IN  /\ queue' = it.queue
           /\ polygons' = it.polygons
           /\ thrown' = it.thrown
           /\ pc' = IF it.thrown # NoError THEN "thrown" ELSE "loop"
    /\ dequeued' = Append(dequeued, Head(queue))       \* line 211
    /\ UNCHANGED <<config, shadow, stored, _primitive, destroyed, log, leaked,
                   quiet, lastSet, hierarchy>>

\* Lines 243-245, once the queue is empty.
FlattenStore ==
    /\ pc = "loop"
    /\ Len(queue) = 0
    /\ LET r == Store(polygons)
       IN  /\ _positions' = r._positions
           /\ _polygonHierarchy' = r._polygonHierarchy
           /\ _createPrimitive' = r._createPrimitive
    /\ pc' = "done"
    /\ UNCHANGED <<config, shadow, _primitive, destroyed, thrown, log, leaked,
                   quiet, lastSet, hierarchy, queue, polygons, dequeued>>

NextFlatten ==
    \/ FlattenIterate
    \/ FlattenStore

SpecFlatten == InitFlatten /\ [][NextFlatten]_vars

\* The call runs to its return or its throw: lines 210-245 are straight-line
\* code in a loop, with nothing to wait for.
SpecFlattenFair == SpecFlatten /\ WF_vars(NextFlatten)

(***************************************************************************)
(* Properties.  A property of update is stated of updateResult, the        *)
(* outcome update has from the state at hand, in every reachable state.    *)
(***************************************************************************)

\* update would pass its checks and its show test.
Visible == ~destroyed /\ Validation = NoError /\ show

\* The calls of a draw: the current material assigned, then update delegated.
DrawCalls == <<MaterialCall(material), UpdateCall>>

\* C1: once a visible update has returned and until a setter is called or
\* ellipsoid, granularity, height or textureRotationAngle is written, every
\* further update builds nothing, destroys nothing and keeps the same
\* Primitive; any update builds at most once, and an update that draws
\* assigns the current material exactly once, right before the one update
\* call it delegates, both after any destroy and build.
C1_RepeatedUpdateReuses ==
    Visible =>
        LET r == updateResult
        IN  /\ CountIn(r.log, "new") <= 1
            /\ (r.how = "drawn") =>
                  /\ Len(r.log) >= 2
                  /\ SubSeq(r.log, Len(r.log) - 1, Len(r.log)) = DrawCalls
                  /\ CountIn(r.log, "appearance.material") = 1
                  /\ CountIn(r.log, "update") = 1
            /\ quiet =>
                  /\ CountIn(r.log, "new") = 0
                  /\ CountIn(r.log, "destroy") = 0
                  /\ r._primitive = _primitive
                  /\ r.thrown = NoError

\* An update has just reused the Primitive of an earlier update.
C1_Witness ==
    /\ Visible
    /\ quiet
    /\ _primitive.defined
    /\ log = DrawCalls

\* C2: while the last setter to return was setPositions with a list of
\* three or more points, an update that builds passes exactly that list,
\* and no hierarchy; with the rebuild still pending, a visible update
\* builds exactly once.
C2_BuildsLatestPositions ==
    (Visible /\ lastSet.call = "setPositions" /\ lastSet.positions.defined) =>
        LET r == updateResult
        IN  /\ (CountIn(r.log, "new") > 0) =>
                  /\ r._primitive.defined
                  /\ r._primitive.positions = lastSet.positions
                  /\ ~r._primitive.polygonHierarchy.defined
            /\ _createPrimitive =>
                  /\ CountIn(r.log, "new") = 1
                  /\ r.thrown = NoError

\* The Primitive built for one list was replaced by one built for the list
\* of a later setPositions.
C2_Witness ==
    /\ lastSet.call = "setPositions"
    /\ lastSet.positions = Array(R2)
    /\ ~_createPrimitive
    /\ _primitive.defined
    /\ _primitive.positions = Array(R2)
    /\ log = <<DestroyCall, NewCall>> \o DrawCalls

RECURSIVE AllRingsValid(_), AllValid(_)
\* Every node of hierarchy h, at any depth, has three or more positions.
AllRingsValid(h) == Len(h.positions) >= 3 /\ AllValid(h.holes)
AllValid(hs) ==
    IF hs = << >> THEN TRUE ELSE AllRingsValid(Head(hs)) /\ AllValid(Tail(hs))

\* C3: configureFromPolygonHierarchy returns normally only for a hierarchy
\* whose every node, at any depth and in any role, has three or more
\* positions (any shorter ring makes it throw).
C3_EveryShortRingRejected ==
    (pc = "done") => AllRingsValid(hierarchy)

\* C4: a setter call that throws "At least three positions are required."
\* leaves _positions, _polygonHierarchy, _createPrimitive, the shadow copies
\* and the Primitive as they were.
C4_FailedSetterChangesNothing ==
    [][(thrown' \in ConfigurationError) =>
          UNCHANGED <<_positions, _polygonHierarchy, _createPrimitive,
                      shadow, _primitive>>]_vars

\* A setter has thrown on a polygon that holds a flat list, a pending
\* rebuild and a Primitive.
C4_Witness ==
    /\ thrown \in ConfigurationError
    /\ _positions.defined
    /\ _createPrimitive
    /\ _primitive.defined

\* C5: update throws whenever the ellipsoid or the material is undefined or
\* the granularity is not greater than zero, and then makes no call on the
\* Primitive.
C5_NonPositiveGranularityThrows ==
    (~destroyed /\ (~defined(ellipsoid) \/ ~defined(material)
                    \/ ~(granularity > 0))) =>
        /\ updateResult.thrown \in InvariantViolation
        /\ updateResult.log = << >>

\* C6: destroy destroys the Primitive held, once, and none if none is held;
\* from then on isDestroyed is true (and false before), and every call of
\* setPositions, configureFromPolygonHierarchy, getPositions, update or
\* destroy throws and changes nothing.
C6_UseAfterDestroy ==
    [][/\ isDestroyed' = destroyed'
       /\ destroyed =>
             /\ destroyed'
             /\ thrown' \in UseAfterDestroy
             /\ log' = << >>
             /\ UNCHANGED <<stored, shadow, _primitive, leaked>>
       /\ (~destroyed /\ destroyed') =>
             /\ log' = IF _primitive.defined THEN <<DestroyCall>> ELSE << >>
             /\ ~_primitive'.defined
             /\ ~leaked'
             /\ thrown' = NoError]_vars

\* A method was called on a destroyed polygon.
C6_Witness ==
    /\ destroyed
    /\ isDestroyed
    /\ thrown \in UseAfterDestroy
    /\ _positions.defined

\* Nothing is pending and the shadow copies are the current fields, but for
\* textureRotationAngle.
OnlyAngleChanged ==
    /\ ~_createPrimitive
    /\ _ellipsoid = ellipsoid
    /\ _granularity = granularity
    /\ _height = height
    /\ _textureRotationAngle # textureRotationAngle

\* C7: with a Primitive held, a visible update after a change of
\* textureRotationAngle alone destroys it and builds one, once each, and
\* leaves nothing to rebuild; a visible update with nothing to rebuild
\* (whatever the material is now) destroys and builds nothing and assigns
\* the current material to the Primitive held, once.
C7_AngleRebuildsMaterialDoesNot ==
    (Visible /\ _primitive.defined) =>
        LET r == updateResult
        IN  /\ OnlyAngleChanged =>
                  /\ r.log = <<DestroyCall, NewCall>> \o DrawCalls
                  /\ ~r._createPrimitive
                  /\ r._ellipsoid = ellipsoid
                  /\ r._granularity = granularity
                  /\ r._height = height
                  /\ r._textureRotationAngle = textureRotationAngle
                  /\ r._primitive.stRotation = textureRotationAngle
            /\ ~Dirty =>
                  /\ r.log = DrawCalls
                  /\ r._primitive = _primitive

\* An update has rebuilt a Primitive for the angle written since it was built,
\* and the material differs from the default.
C7_Witness ==
    /\ quiet
    /\ log = <<DestroyCall, NewCall, MaterialCall(2), UpdateCall>>
    /\ _primitive.stRotation = 1
    /\ _primitive.stRotation = textureRotationAngle

RECURSIVE IslandsOfHoles(_, _), IslandsOfNodes(_, _), LevelOrder(_)
\* The nodes nested in holes i, i + 1, ... of hs, in order.
IslandsOfHoles(hs, i) ==
    IF i > Len(hs) THEN << >> ELSE hs[i].holes \o IslandsOfHoles(hs, i + 1)
\* The nodes nested in the holes of nodes i, i + 1, ... of ns, in order.
IslandsOfNodes(ns, i) ==
    IF i > Len(ns) THEN << >>
    ELSE IslandsOfHoles(ns[i].holes, 1) \o IslandsOfNodes(ns, i + 1)
\* The nodes ns, then the nodes nested in their holes, level by level.
LevelOrder(ns) ==
    IF ns = << >> THEN << >> ELSE ns \o LevelOrder(IslandsOfNodes(ns, 1))

RECURSIVE RingsOfHoles(_, _), LoopsOf(_, _)
RingsOfHoles(hs, i) ==
    IF i > Len(hs) THEN << >>
    ELSE <<hs[i].positions>> \o RingsOfHoles(hs, i + 1)
\* The loop of each of nodes i, i + 1, ... of ns: its ring if it has no
\* holes, else eliminateHoles of its ring and the rings of its holes.
LoopsOf(ns, i) ==
    IF i > Len(ns) THEN << >>
    ELSE <<IF Len(ns[i].holes) = 0 THEN ns[i].positions
           ELSE eliminateHoles(ns[i].positions, RingsOfHoles(ns[i].holes, 1))>>
         \o LoopsOf(ns, i + 1)

\* C8: the loops put out are, one per node and in this order, those of the
\* root and of the nodes nested in holes taken level by level (the FIFO
\* order): while the loop runs the output is a prefix of them and the queue
\* holds the nodes that follow, and what is stored at the end is all of
\* them.  So R with hole H holding island I gives <<merge(R, <<H>>), I>>.
C8_FlattenIsLevelOrder ==
    LET nodes == LevelOrder(<<hierarchy>>)
        loops == LoopsOf(nodes, 1)
        n == Len(polygons)
    IN  /\ (pc \in {"loop", "done"}) =>
              /\ n <= Len(loops)
              /\ polygons = SubSeq(loops, 1, n)
              /\ n + Len(queue) <= Len(nodes)
              /\ queue = SubSeq(nodes, n + 1, n + Len(queue))
        /\ (pc = "done") =>
              /\ _polygonHierarchy = Array(loops)
              /\ n = Len(nodes)
        /\ (pc = "done" /\ hierarchy = Node(R1, <<Node(R2, <<Leaf(R2)>>)>>)) =>
              _polygonHierarchy.value = <<R1 \o <<0>> \o R2, R2>>
        /\ (pc = "done" /\ hierarchy = Node(R2, <<Leaf(R1)>>)) =>
              _polygonHierarchy.value = <<eliminateHoles(R2, <<R1>>)>>

\* The call returned for a ring with two holes, the first holding an island.
C8_Witness ==
    /\ pc = "done"
    /\ hierarchy = Node(R1, <<Node(R2, <<Leaf(R2)>>), Leaf(R1)>>)
    /\ _polygonHierarchy.value = <<R1 \o <<0>> \o R2 \o <<0>> \o R1, R2>>

\* C9: with show false and the fields valid, update returns without a call
\* on the Primitive and without a change to _createPrimitive, the shadow
\* copies or the Primitive; so what is to be rebuilt stays so, and the first
\* visible update destroys the Primitive held, once, builds once if there
\* is a boundary, and leaves nothing to rebuild.
C9_HiddenUpdateIsNoOp ==
    (~destroyed /\ Validation = NoError) =>
        LET r == updateResult
        IN  /\ ~show =>
                  /\ r.thrown = NoError
                  /\ r.log = << >>
                  /\ r._createPrimitive = _createPrimitive
                  /\ r._ellipsoid = _ellipsoid
                  /\ r._granularity = _granularity
                  /\ r._height = _height
                  /\ r._textureRotationAngle = _textureRotationAngle
                  /\ r._primitive = _primitive
                  /\ r.leaked = leaked
            /\ (show /\ Dirty /\ (_createPrimitive \/ _primitive.defined)) =>
                  /\ CountIn(r.log, "destroy") =
                        (IF _primitive.defined THEN 1 ELSE 0)
                  /\ CountIn(r.log, "new") =
                        (IF _positions.defined \/ _polygonHierarchy.defined
                         THEN 1 ELSE 0)
                  /\ ~r._createPrimitive
                  /\ r._ellipsoid = ellipsoid
                  /\ r._granularity = granularity
                  /\ r._height = height
                  /\ r._textureRotationAngle = textureRotationAngle

\* A hidden polygon holds a Primitive built before a setter call and a
\* write of height.
C9_Witness ==
    /\ ~destroyed
    /\ Validation = NoError
    /\ ~show
    /\ _primitive.defined
    /\ _createPrimitive
    /\ _height # height

\* C10: setPositions, when it returns, has stored its argument, cleared
\* _polygonHierarchy and set _createPrimitive; configureFromPolygonHierarchy
\* has stored the loops, cleared _positions and set _createPrimitive; and
\* with _createPrimitive set the next visible update destroys the Primitive
\* held and builds one for the boundary stored, be it the one the Primitive
\* held was built for or another.
C10_SettersStoreAndMarkDirty ==
    ~destroyed =>
        /\ \A positions \in PositionInputs :
              LET r == setPositionsResult(positions)
              IN  (r.thrown = NoError) =>
                     /\ r._positions = positions
                     /\ ~r._polygonHierarchy.defined
                     /\ r._createPrimitive
        /\ \A h \in HierarchyInputs :
              LET r == configureFromPolygonHierarchyResult(h)
              IN  (r.thrown = NoError) =>
                     /\ ~r._positions.defined
                     /\ r._polygonHierarchy =
                           Array(LoopsOf(LevelOrder(<<h>>), 1))
                     /\ r._createPrimitive
        /\ (lastSet.call = "setPositions") =>
              /\ _positions = lastSet.positions
              /\ ~_polygonHierarchy.defined
        /\ (lastSet.call = "configureFromPolygonHierarchy") =>
              /\ ~_positions.defined
              /\ _polygonHierarchy.defined
        /\ (Visible /\ _createPrimitive /\ _primitive.defined
                /\ (_positions.defined \/ _polygonHierarchy.defined)) =>
              /\ updateResult.log = <<DestroyCall, NewCall>> \o DrawCalls
              /\ updateResult._primitive.positions = _positions
              /\ updateResult._primitive.polygonHierarchy = _polygonHierarchy

\* setPositions has returned for the list the Primitive held was built for,
\* and nothing else is to be rebuilt.
C10_Witness ==
    /\ Visible
    /\ lastSet.call = "setPositions"
    /\ _createPrimitive
    /\ _primitive.defined
    /\ _primitive.positions = _positions
    /\ _ellipsoid = ellipsoid
    /\ _granularity = granularity
    /\ _height = height
    /\ _textureRotationAngle = textureRotationAngle

\* C11: setPositions throws exactly when its argument is defined and has
\* fewer than three entries: an array of 0, 1 or 2 points; only undefined is
\* taken as no positions and stored.
C11_ThrowsForShortArrays ==
    ~destroyed =>
        \A positions \in PositionInputs :
            LET r == setPositionsResult(positions)
            IN  /\ (r.thrown \in ConfigurationError) <=>
                      (positions.defined /\ Len(positions.value) < 3)
                /\ (r.thrown \notin ConfigurationError) => (r.thrown = NoError)
                /\ (~positions.defined) =>
                      (r._positions = UndefinedArray /\ r._createPrimitive)

\* C11 as claimed: setPositions throws exactly when its argument has 1 or 2
\* points; undefined and the empty array are both accepted.
C11_EmptyArrayAccepted ==
    ~destroyed =>
        \A positions \in PositionInputs :
            (setPositionsResult(positions).thrown \in ConfigurationError) <=>
                (positions.defined /\ Len(positions.value) > 0
                                   /\ Len(positions.value) < 3)

\* setPositions(undefined) has returned on a polygon that holds a Primitive.
C11_Witness ==
    /\ lastSet.call = "setPositions"
    /\ ~lastSet.positions.defined
    /\ thrown = NoError
    /\ _createPrimitive
    /\ _primitive.defined
\* An update with outcome r has gone through the rebuild of lines 283-313:
\* it destroyed or built a Primitive, or cleared _createPrimitive.
Rebuilt(r) ==
    \/ CountIn(r.log, "new") > 0
    \/ CountIn(r.log, "destroy") > 0
    \/ _createPrimitive /\ ~r._createPrimitive

\* C12: a visible, valid update with _createPrimitive set or a Primitive held
\* rebuilds if and only if _createPrimitive is set or one of ellipsoid (as an
\* object), granularity, height, textureRotationAngle differs from its
\* shadow copy; so another ellipsoid object of equal radii rebuilds, and
\* unchanged values do not.
C12_RebuildsIffDirty ==
    (Visible /\ (_createPrimitive \/ _primitive.defined)) =>
        LET r == updateResult
        IN  /\ Rebuilt(r) <=>
                  \/ _createPrimitive
                  \/ _ellipsoid # ellipsoid
                  \/ _granularity # granularity
                  \/ _height # height
                  \/ _textureRotationAngle # textureRotationAngle
            /\ Rebuilt(r) =>
                  /\ r._ellipsoid = ellipsoid
                  /\ r._granularity = granularity
                  /\ r._height = height
                  /\ r._textureRotationAngle = textureRotationAngle
            /\ ~Rebuilt(r) =>
                  /\ r.log = DrawCalls
                  /\ r._primitive = _primitive

\* A Primitive was built and drawn, and since then only another ellipsoid
\* object of equal radii was assigned: the update to come rebuilds.
C12_Witness ==
    /\ Visible
    /\ ~_createPrimitive
    /\ _primitive.defined
    /\ defined(_ellipsoid)
    /\ _ellipsoid # ellipsoid
    /\ EllipsoidRadii(_ellipsoid) = EllipsoidRadii(ellipsoid)
    /\ _granularity = granularity
    /\ _height = height
    /\ _textureRotationAngle = textureRotationAngle
    /\ updateResult.log = <<DestroyCall, NewCall>> \o DrawCalls

\* The position of the first call named name in l, 0 if there is none.
RECURSIVE IndexIn(_, _, _)
IndexIn(l, name, i) ==
    IF i > Len(l) THEN 0
    ELSE IF l[i].call = name THEN i ELSE IndexIn(l, name, i + 1)

\* C13: the polygon holds at most one Primitive, and none built by it was let
\* go undestroyed; an update destroys the Primitive held exactly when it
\* rebuilds, once, and before it builds the next; it draws only a Primitive
\* it holds; destroy destroys the Primitive held, once, and holds none after.
C13_PrimitiveOwnership ==
    /\ ~leaked
    /\ destroyed => ~_primitive.defined
    /\ CountIn(log, "destroy") <= 1
    /\ CountIn(log, "new") <= 1
    /\ ~destroyed =>
          LET r == updateResult
              d == destroyResult
          IN  /\ ~r.leaked
              /\ CountIn(r.log, "destroy") =
                    (IF _primitive.defined /\ Rebuilt(r) THEN 1 ELSE 0)
              /\ CountIn(r.log, "new") <= 1
              /\ (CountIn(r.log, "new") = 1 /\ _primitive.defined) =>
                    /\ IndexIn(r.log, "destroy", 1) = 1
                    /\ IndexIn(r.log, "new", 1) = 2
              /\ (CountIn(r.log, "new") = 1) =>
                    (r._primitive = NewPrimitive /\ r._primitive.defined)
              /\ (CountIn(r.log, "destroy") = 1 /\ CountIn(r.log, "new") = 0) =>
                    (~r._primitive.defined /\ r.log = <<DestroyCall>>)
              /\ (CountIn(r.log, "update") > 0) => r._primitive.defined
              /\ (CountIn(r.log, "destroy") = 0 /\ CountIn(r.log, "new") = 0) =>
                    r._primitive = _primitive
              /\ ~d.leaked
              /\ ~d._primitive.defined
              /\ d.log = (IF _primitive.defined THEN <<DestroyCall>> ELSE << >>)

\* An update destroyed the Primitive held and built the one now held for
\* the loops of a hierarchy, and nothing was let go undestroyed.
C13_Witness ==
    /\ log = <<DestroyCall, NewCall>> \o DrawCalls
    /\ _primitive.defined
    /\ _primitive.polygonHierarchy.defined
    /\ ~leaked
    /\ ~destroyed

\* The last setter to return was setPositions(undefined).
Cleared == lastSet.call = "setPositions" /\ ~lastSet.positions.defined

\* C14: after setPositions(undefined) nothing is stored, and the next
\* visible, valid update destroys the Primitive held, if any, copies the
\* fields to their shadows, clears _createPrimitive, builds nothing, draws
\* nothing and throws nothing; from then on, until another setter returns,
\* no update makes any call, whatever is written to ellipsoid, granularity,
\* height or textureRotationAngle.
C14_ClearedIsTerminal ==
    (Cleared /\ ~destroyed) =>
        LET r == updateResult
        IN  /\ ~_positions.defined /\ ~_polygonHierarchy.defined
            /\ (Visible /\ _createPrimitive) =>
                  /\ r.thrown = NoError
                  /\ r.log = (IF _primitive.defined THEN <<DestroyCall>>
                              ELSE << >>)
                  /\ ~r._primitive.defined
                  /\ ~r._createPrimitive
                  /\ r._ellipsoid = ellipsoid
                  /\ r._granularity = granularity
                  /\ r._height = height
                  /\ r._textureRotationAngle = textureRotationAngle
            /\ ~_createPrimitive =>
                  /\ ~_primitive.defined
                  /\ r.log = << >>
                  /\ r._primitive = _primitive
                  /\ ~r._createPrimitive
            /\ CountIn(r.log, "new") = 0
            /\ CountIn(r.log, "update") = 0

\* The update after setPositions(undefined) destroyed the Primitive held and
\* built none.
C14_Witness ==
    /\ Cleared
    /\ ~destroyed
    /\ thrown = NoError
    /\ log = <<DestroyCall>>
    /\ ~_createPrimitive
    /\ ~_primitive.defined
    /\ _height = height

\* The fields update validates are not all as it requires.
Invalid == ~defined(ellipsoid) \/ ~defined(material) \/ granularity < 0

\* C15: update validates before anything else: with an undefined ellipsoid,
\* an undefined material or a negative granularity it throws, shown or not,
\* with or without a boundary or a Primitive; and a step in which update
\* throws so leaves _positions, _polygonHierarchy, _createPrimitive, the
\* shadow copies and the Primitive as they were and makes no call.
C15_FailedUpdateChangesNothing ==
    [][/\ (~destroyed /\ Invalid) =>
              LET r == updateResult
              IN  /\ r.thrown \in InvariantViolation
                  /\ r.log = << >>
                  /\ r._createPrimitive = _createPrimitive
                  /\ r._primitive = _primitive
                  /\ <<r._ellipsoid, r._granularity, r._height,
                       r._textureRotationAngle>> = shadow
       /\ (~destroyed /\ ~Invalid) =>
              updateResult.thrown \notin InvariantViolation
       /\ (thrown' \in InvariantViolation) =>
              /\ Invalid
              /\ log' = << >>
              /\ UNCHANGED <<stored, shadow, _primitive, leaked, config>>
      ]_vars

\* update has thrown on a hidden polygon that holds a boundary, a pending
\* rebuild and a Primitive.
C15_Witness ==
    /\ thrown \in InvariantViolation
    /\ ~show
    /\ _createPrimitive
    /\ _primitive.defined
    /\ _polygonHierarchy.defined
    /\ log = << >>

\* C16: an update that draws (calls primitive.update) draws a Primitive
\* built from _positions and _polygonHierarchy as they are stored and from
\* the current height, textureRotationAngle, ellipsoid and granularity, and
\* leaves the shadow copies equal to the current fields and no rebuild
\* pending; and the Primitive held is always one built from the shadow
\* copies.
C16_DrawsCurrentGeometry ==
    /\ _primitive.defined =>
          /\ _primitive.height = _height
          /\ _primitive.stRotation = _textureRotationAngle
          /\ _primitive.ellipsoid = _ellipsoid
          /\ _primitive.granularity = _granularity
    /\ ~destroyed =>
          LET r == updateResult
          IN  (CountIn(r.log, "update") > 0) =>
                  /\ r._primitive.defined
                  /\ r._primitive.positions = _positions
                  /\ r._primitive.polygonHierarchy = _polygonHierarchy
                  /\ r._primitive.height = height
                  /\ r._primitive.stRotation = textureRotationAngle
                  /\ r._primitive.ellipsoid = ellipsoid
                  /\ r._primitive.granularity = granularity
                  /\ r._ellipsoid = ellipsoid
                  /\ r._granularity = granularity
                  /\ r._height = height
                  /\ r._textureRotationAngle = textureRotationAngle
                  /\ ~r._createPrimitive

\* An update destroyed the Primitive held and drew one rebuilt from the loops
\* of a hierarchy at the height written since.
C16_Witness ==
    /\ quiet
    /\ show
    /\ log = <<DestroyCall, NewCall>> \o DrawCalls
    /\ lastSet.call = "configureFromPolygonHierarchy"
    /\ _primitive.polygonHierarchy = _polygonHierarchy
    /\ ~_primitive.positions.defined
    /\ _primitive.height = 1
    /\ height = 1
    /\ _primitive.aboveGround

\* C17: in every state, from construction with any options on, at most one
\* of _positions and _polygonHierarchy is defined.
C17_AtMostOneBoundary ==
    ~(_positions.defined /\ _polygonHierarchy.defined)

\* C18: on a polygon constructed with positions or a polygonHierarchy and on
\* which no setter has been called, a visible, valid update builds one
\* Primitive from that boundary and draws it.
C18_ConstructorBoundaryIsDrawn ==
    (Visible /\ lastSet.call = "none" /\ thrown = NoError
     /\ (_positions.defined \/ _polygonHierarchy.defined)) =>
        LET r == updateResult
        IN  /\ CountIn(r.log, "new") = 1
            /\ CountIn(r.log, "update") = 1
            /\ r._primitive.defined
            /\ r._primitive.positions = _positions
            /\ r._primitive.polygonHierarchy = _polygonHierarchy

\* The nodes of sequence ns that are the node n.
RECURSIVE Times(_, _)
Times(ns, n) ==
    IF ns = << >> THEN 0
    ELSE (IF Head(ns) = n THEN 1 ELSE 0) + Times(Tail(ns), n)

\* C19: configureFromPolygonHierarchy ends, by its return or by a throw, for
\* every hierarchy; all along, the nodes dequeued and those on the queue are
\* the root and the nodes nested in holes, each as often as it occurs so in
\* the hierarchy and no hole besides, one loop is put out per node dequeued
\* without a throw, and at the return each has been dequeued once and there
\* are as many loops as nodes dequeued.
C19_FlattenTerminates ==
    /\ <>(pc \in {"done", "thrown"})
    /\ [](LET nodes == LevelOrder(<<hierarchy>>)
              seen == dequeued \o queue
          IN  /\ Len(nodes) <= MaxNodes
              /\ Len(seen) <= Len(nodes)
              /\ \A i \in 1..Len(seen) :
                    Times(seen, seen[i]) <= Times(nodes, seen[i])
              /\ (pc = "loop") => Len(polygons) = Len(dequeued)
              /\ (pc = "thrown") => Len(polygons) = Len(dequeued) - 1
              /\ (pc = "done") =>
                    /\ queue = << >>
                    /\ Len(polygons) = Len(dequeued)
                    /\ Len(dequeued) = Len(nodes)
                    /\ \A i \in 1..Len(nodes) :
                          Times(dequeued, nodes[i]) = Times(nodes, nodes[i])
                    /\ _polygonHierarchy = Array(polygons))

\* The call returned for a ring with a hole holding two islands: the root
\* and the islands were dequeued once each, the hole never.
C19_Witness ==
    /\ pc = "done"
    /\ hierarchy = Node(R1, <<Node(R2, <<Leaf(R1), Leaf(R2)>>)>>)
    /\ dequeued = <<hierarchy, Leaf(R1), Leaf(R2)>>
    /\ Len(polygons) = 3
====
